---- MODULE Spec2Model ----
(***************************************************************************)
(* Model of the two report generators of Desktop/devOpsPj:                 *)
(*   script.py            chat session report (log.txt, result.html)       *)
(*   financial_report.py  financial report (generated_report.html,         *)
(*                        process.log)                                     *)
(*                                                                         *)
(* Spec   : one run of either program, from the parsed command line to     *)
(*          the exit of the process, with the file writes able to fail.    *)
(* SpecV  : direct calls of the pure functions of script.py                *)
(*          (validate_inputs, calculate_error_rate, determine_status)      *)
(*          with arguments of every Python kind a caller may pass.         *)
(*                                                                         *)
(* Python values are records [k |-> kind, v |-> number]; floats are        *)
(* records [k |-> "fin" | "inf" | "ninf" | "nan", n |-> numerator,         *)
(* d |-> denominator].  Finite floats are kept as exact fractions: the     *)
(* rounding of a double is not modelled, its special values are.           *)
(***************************************************************************)
EXTENDS Integers, Sequences, FiniteSets, TLC

VARIABLES variant, pc, args, is_valid, error_msg, error_rate, status,
          savings, savings_percentage, exc, disk, written, out, err,
          exit_code, previous

vars == <<variant, pc, args, is_valid, error_msg, error_rate, status,
          savings, savings_percentage, exc, disk, written, out, err,
          exit_code, previous>>

(***************************************************************************)
(* Bounds of the model and program constants                               *)
(***************************************************************************)
\* small message counts are drawn from -1..MaxSmall
MaxSmall == 5
\* a message count at which the rate 3/10 is hit exactly
RateDen == 10
\* session times are drawn from -1..MaxTime
MaxTime == 1
\* small amounts of money are drawn from -1..MaxMoney
MaxMoney == 3
\* readings of the wall clock
MaxClock == 2

\* script.py: MAX_REASONABLE = 1000000
MAX_REASONABLE == 1000000

(***************************************************************************)
(* Python values                                                           *)
(***************************************************************************)
PyInt(n) == [k |-> "int", v |-> n]
PyBool(b) == [k |-> "bool", v |-> IF b THEN 1 ELSE 0]
PyFloat(n) == [k |-> "float", v |-> n]
PyStr == [k |-> "str", v |-> 0]
PyNone == [k |-> "none", v |-> 0]

\* isinstance(x, int): bool is a subclass of int
isinstance_int(x) == x.k \in {"int", "bool"}

\* x in [True, False]: list membership compares with ==, and 1 == True,
\* 0 == False, 1.0 == True, 0.0 == False
in_true_false(x) == x.k \in {"int", "bool", "float"} /\ x.v \in {0, 1}

\* truth value of an object accepted by validate_inputs
truthy(x) == IF x.k \in {"int", "bool", "float"} THEN x.v # 0 ELSE x.k = "str"

(***************************************************************************)
(* Floats                                                                  *)
(***************************************************************************)
RECURSIVE GCD(_, _)
GCD(a, b) == IF b = 0 THEN a ELSE GCD(b, a % b)

Abs(n) == IF n < 0 THEN -n ELSE n

Fin(n, d) ==
    LET g == GCD(Abs(n), Abs(d))
        s == IF d < 0 THEN -1 ELSE 1
    IN [k |-> "fin", n |-> (s * n) \div g, d |-> (s * d) \div g]

NaN == [k |-> "nan", n |-> 0, d |-> 1]
Inf == [k |-> "inf", n |-> 0, d |-> 1]
NInf == [k |-> "ninf", n |-> 0, d |-> 1]
\* the outcome of a division that raises ZeroDivisionError
ZeroDiv == [k |-> "zerodiv", n |-> 0, d |-> 1]

FSign(a) == IF a.k = "inf" THEN 1
            ELSE IF a.k = "ninf" THEN -1
            ELSE IF a.n > 0 THEN 1 ELSE IF a.n < 0 THEN -1 ELSE 0

\* a < b on doubles: every comparison with nan is False
FLt(a, b) ==
    IF a.k = "nan" \/ b.k = "nan" THEN FALSE
    ELSE IF a.k = "inf" \/ b.k = "ninf" THEN FALSE
    ELSE IF a.k = "ninf" \/ b.k = "inf" THEN TRUE
    ELSE a.n * b.d < b.n * a.d

\* a <= b on doubles
FLe(a, b) ==
    IF a.k = "nan" \/ b.k = "nan" THEN FALSE
    ELSE IF a.k = b.k /\ a.k # "fin" THEN TRUE
    ELSE IF a.k = "inf" \/ b.k = "ninf" THEN FALSE
    ELSE IF a.k = "ninf" \/ b.k = "inf" THEN TRUE
    ELSE a.n * b.d <= b.n * a.d

FGt(a, b) == FLt(b, a)

\* a - b on doubles
FSub(a, b) ==
    IF a.k = "nan" \/ b.k = "nan" THEN NaN
    ELSE IF a.k = "fin" /\ b.k = "fin" THEN Fin(a.n * b.d - b.n * a.d, a.d * b.d)
    ELSE IF a.k = b.k THEN NaN
    ELSE IF a.k = "inf" \/ b.k = "ninf" THEN Inf
    ELSE NInf

\* a / b on doubles: a zero divisor raises ZeroDivisionError
FDiv(a, b) ==
    IF b.k = "fin" /\ b.n = 0 THEN ZeroDiv
    ELSE IF a.k = "nan" \/ b.k = "nan" THEN NaN
    ELSE IF a.k = "fin" /\ b.k = "fin" THEN Fin(a.n * b.d, a.d * b.n)
    ELSE IF a.k # "fin" /\ b.k # "fin" THEN NaN
    ELSE IF b.k # "fin" THEN Fin(0, 1)
    ELSE IF FSign(a) * FSign(b) > 0 THEN Inf ELSE NInf

\* a * b on doubles
FMul(a, b) ==
    IF a.k = "zerodiv" \/ b.k = "zerodiv" THEN ZeroDiv
    ELSE IF a.k = "nan" \/ b.k = "nan" THEN NaN
    ELSE IF a.k = "fin" /\ b.k = "fin" THEN Fin(a.n * b.n, a.d * b.d)
    ELSE IF FSign(a) * FSign(b) = 0 THEN NaN
    ELSE IF FSign(a) * FSign(b) > 0 THEN Inf ELSE NInf

\* str(x) of a double that holds a whole number or a special value
FStr(a) ==
    IF a.k = "nan" THEN "nan"
    ELSE IF a.k = "inf" THEN "inf"
    ELSE IF a.k = "ninf" THEN "-inf"
    ELSE ToString(a.n) \o ".0"

(***************************************************************************)
(* script.py: validate_inputs                                              *)
(***************************************************************************)
Ok == [ok |-> TRUE, msg |-> ""]
Reject(m) == [ok |-> FALSE, msg |-> m]

\* if x < 0
below_zero(x) == x.v < 0

\* if x > MAX_REASONABLE
above_max(x) == x.v > MAX_REASONABLE

\* mutant of above_user_messages: >= for >
above_user_messages_inclusive(x, user_messages) == x.v >= user_messages.v

\* if ai_responses > user_messages / if validation_errors > user_messages
above_user_messages(x, user_messages) == x.v > user_messages.v

\* if session_time <= 0
not_positive(session_time) == session_time.v <= 0

\* if cta_left not in [True, False]
not_boolean(cta_left) == ~in_true_false(cta_left)

\* mutant of validate_limits: the cross-field checks before the upper bounds
validate_limits_cross_first(user_messages, ai_responses, validation_errors, cta_left, session_time) ==
    IF above_user_messages(ai_responses, user_messages)
      THEN Reject("ai_responses must be <= user_messages")
    ELSE IF above_user_messages(validation_errors, user_messages)
      THEN Reject("validation_errors must be <= user_messages")
    ELSE IF above_max(user_messages)
      THEN Reject("user_messages must be <= " \o ToString(MAX_REASONABLE))
    ELSE IF above_max(ai_responses)
      THEN Reject("ai_responses must be <= " \o ToString(MAX_REASONABLE))
    ELSE IF above_max(validation_errors)
      THEN Reject("validation_errors must be <= " \o ToString(MAX_REASONABLE))
    ELSE IF above_max(session_time)
      THEN Reject("session_time must be <= " \o ToString(MAX_REASONABLE))
    ELSE IF not_positive(session_time)
      THEN Reject("session_time must be > 0")
    ELSE IF not_boolean(cta_left)
      THEN Reject("cta_left must be true or false")
    ELSE Ok

\* the checks that follow the integer checks and the >= 0 checks
validate_limits(user_messages, ai_responses, validation_errors, cta_left, session_time) ==
    IF above_max(user_messages)
      THEN Reject("user_messages must be <= " \o ToString(MAX_REASONABLE))
    ELSE IF above_max(ai_responses)
      THEN Reject("ai_responses must be <= " \o ToString(MAX_REASONABLE))
    ELSE IF above_max(validation_errors)
      THEN Reject("validation_errors must be <= " \o ToString(MAX_REASONABLE))
    ELSE IF above_max(session_time)
      THEN Reject("session_time must be <= " \o ToString(MAX_REASONABLE))
    ELSE IF above_user_messages(ai_responses, user_messages)
      THEN Reject("ai_responses must be <= user_messages")
    ELSE IF above_user_messages(validation_errors, user_messages)
      THEN Reject("validation_errors must be <= user_messages")
    ELSE IF not_positive(session_time)
      THEN Reject("session_time must be > 0")
    ELSE IF not_boolean(cta_left)
      THEN Reject("cta_left must be true or false")
    ELSE Ok

validate_inputs(user_messages, ai_responses, validation_errors, cta_left, session_time) ==
    IF ~isinstance_int(user_messages)
      THEN Reject("user_messages must be an integer")
    ELSE IF ~isinstance_int(ai_responses)
      THEN Reject("ai_responses must be an integer")
    ELSE IF ~isinstance_int(validation_errors)
      THEN Reject("validation_errors must be an integer")
    ELSE IF ~isinstance_int(session_time)
      THEN Reject("session_time must be an integer")
    ELSE IF below_zero(user_messages)
      THEN Reject("user_messages must be >= 0")
    ELSE IF below_zero(ai_responses)
      THEN Reject("ai_responses must be >= 0")
    ELSE IF below_zero(validation_errors)
      THEN Reject("validation_errors must be >= 0")
    ELSE validate_limits(user_messages, ai_responses, validation_errors,
                         cta_left, session_time)

(***************************************************************************)
(* script.py: calculate_error_rate, determine_status                       *)
(***************************************************************************)
\* int / int, true division
TrueDiv(a, b) == FDiv(Fin(a.v, 1), Fin(b.v, 1))

\* mutant of calculate_error_rate: no check for user_messages == 0
calculate_error_rate_unguarded(validation_errors, user_messages) ==
    TrueDiv(validation_errors, user_messages)

calculate_error_rate(validation_errors, user_messages) ==
    IF user_messages.v = 0 THEN Fin(0, 1)
    ELSE TrueDiv(validation_errors, user_messages)

\* mutant of above_threshold: >= for >
above_threshold_inclusive(rate) == FLe(Fin(3, 10), rate)

\* error_rate > 0.3.  The literal 0.3 is the double nearest 3/10, and so is
\* the quotient 3/10; any other quotient e/u with u <= 1000000 is at least
\* 1/(10*u) >= 1e-7 away from 3/10, far more than a double's rounding error:
\* the comparison of the doubles is the comparison of the fractions.
above_threshold(rate) == FGt(rate, Fin(3, 10))

determine_status(rate, cta_left) ==
    LET base == IF above_threshold(rate) THEN "Problematic" ELSE "OK"
    IN IF truthy(cta_left) THEN base \o " (CTA left)" ELSE base

(***************************************************************************)
(* Text                                                                    *)
(***************************************************************************)
\* sub in s
Contains(s, sub) ==
    \E i \in 1..(Len(s) - Len(sub) + 1) : SubSeq(s, i, i + Len(sub) - 1) = sub

\* the text of an f-string, given as its literal parts and formatted values
RECURSIVE Join(_)
Join(parts) == IF parts = <<>> THEN "" ELSE Head(parts) \o Join(Tail(parts))

(***************************************************************************)
(* Files of the working directory                                          *)
(***************************************************************************)
NoSessionBody ==
    [user_messages |-> 0, ai_responses |-> 0, validation_errors |-> 0,
     cta_left |-> FALSE, session_time |-> 0, error_rate |-> Fin(0, 1),
     status |-> "", timestamp |-> 0, status_color |-> "", cta_row |-> ""]

NoFinancialBody ==
    [name |-> "", date |-> "", salary |-> Fin(0, 1), expenses |-> Fin(0, 1),
     savings |-> Fin(0, 1), savings_percentage |-> Fin(0, 1)]

\* a directory no run has written to, and one a previous run has left its
\* files in
FreshDisk ==
    [log_txt |-> [state |-> "absent", body |-> NoSessionBody],
     result_html |-> [state |-> "absent", body |-> NoSessionBody],
     generated_report_html |-> [state |-> "absent", body |-> NoFinancialBody],
     process_log |-> [exists |-> FALSE, appended |-> <<>>]]

UsedDisk ==
    [log_txt |-> [state |-> "stale", body |-> NoSessionBody],
     result_html |-> [state |-> "stale", body |-> NoSessionBody],
     generated_report_html |-> [state |-> "stale", body |-> NoFinancialBody],
     process_log |-> [exists |-> TRUE, appended |-> <<>>]]

\* with open(name, "w") as f: f.write(content)
\*   "open"  : open raises, the file is left as it was
\*   "write" : the file is created or truncated, then write or close raises
\*   "ok"    : the file holds the content
Outcomes == {"ok", "open", "write"}

open_write(file, outcome, empty, content) ==
    IF outcome = "open" THEN file
    ELSE IF outcome = "write" THEN [state |-> "partial", body |-> empty]
    ELSE [state |-> "full", body |-> content]

OSError(outcome, name) ==
    IF outcome = "open"
      THEN <<"PermissionError: [Errno 13] Permission denied: '", name, "'">>
    ELSE <<"OSError: [Errno 28] No space left on device">>

\* logging.info / logging.error: a record appended to process.log
log_record(d, level, event) ==
    [d EXCEPT !.process_log =
        [exists |-> TRUE,
         appended |-> Append(d.process_log.appended, <<level, event>>)]]

(***************************************************************************)
(* Command lines                                                           *)
(***************************************************************************)
\* type=int arguments
BigVals == {MAX_REASONABLE - 1, MAX_REASONABLE, MAX_REASONABLE + 1,
            2 * MAX_REASONABLE}
CountVals == (-1..MaxSmall) \cup {RateDen} \cup BigVals
TimeVals == (-1..MaxTime) \cup {MAX_REASONABLE, MAX_REASONABLE + 1}

\* choices=["true", "false"]
CtaChoices == {"true", "false"}

SessionArgs ==
    [user_messages : CountVals, ai_responses : CountVals,
     validation_errors : CountVals, cta_left : CtaChoices,
     session_time : TimeVals]

\* type=float arguments: float() also reads "inf", "-inf" and "nan"
MoneyVals == {Fin(n, 1) : n \in (-1..MaxMoney) \cup {1000, 1200, 3500, 5000}}
                \cup {Inf, NInf, NaN}

FinancialArgs ==
    [name : {"Dana"}, date : {"2024-01-31"}, salary : MoneyVals,
     expenses : MoneyVals]

\* what an earlier run of the same command line in the same directory has
\* left: nothing, before the first run
NoRun ==
    [ran |-> FALSE, is_valid |-> FALSE, error_msg |-> "",
     error_rate |-> Fin(0, 1), status |-> "", savings |-> Fin(0, 1),
     savings_percentage |-> Fin(0, 1), exit_code |-> -1, out |-> <<>>,
     err |-> <<>>, disk |-> FreshDisk]

\* exit_code is -1 while the process runs
Init ==
    /\ variant \in {"session", "financial"}
    /\ args \in (IF variant = "session" THEN SessionArgs ELSE FinancialArgs)
    /\ disk \in {FreshDisk, UsedDisk}
    /\ pc = "start"
    /\ is_valid = FALSE
    /\ error_msg = ""
    /\ error_rate = Fin(0, 1)
    /\ status = ""
    /\ savings = Fin(0, 1)
    /\ savings_percentage = Fin(0, 1)
    /\ exc = <<>>
    /\ written = {}
    /\ out = <<>>
    /\ err = <<>>
    /\ exit_code = -1
    /\ previous = NoRun

(***************************************************************************)
(* script.py: main                                                         *)
(***************************************************************************)
\* args.cta_left.lower() == "true"
cta_left_bool == PyBool(args.cta_left = "true")

\* mutant of ValidateSession: the rejection is reported, sys.exit(1) is missing
ValidateSession_no_exit ==
    /\ variant = "session" /\ pc = "start"
    /\ LET r == validate_inputs(PyInt(args.user_messages), PyInt(args.ai_responses),
                                PyInt(args.validation_errors), cta_left_bool,
                                PyInt(args.session_time))
       IN /\ is_valid' = r.ok
          /\ error_msg' = r.msg
          /\ pc' = "derive"
          /\ err' = IF r.ok THEN err ELSE Append(err, "ERROR: " \o r.msg)
          /\ UNCHANGED exit_code
    /\ UNCHANGED <<variant, args, previous, error_rate, status, savings,
                   savings_percentage, exc, disk, written, out>>

\* script.py 536-550: convert, validate, report a rejection and exit
ValidateSession ==
    /\ variant = "session" /\ pc = "start"
    /\ LET r == validate_inputs(PyInt(args.user_messages), PyInt(args.ai_responses),
                                PyInt(args.validation_errors), cta_left_bool,
                                PyInt(args.session_time))
       IN /\ is_valid' = r.ok
          /\ error_msg' = r.msg
          /\ IF r.ok
               THEN /\ pc' = "derive"
                    /\ UNCHANGED <<err, exit_code>>
               ELSE /\ pc' = "done"
                    /\ err' = Append(err, "ERROR: " \o r.msg)
                    /\ exit_code' = 1
    /\ UNCHANGED <<variant, args, previous, error_rate, status, savings,
                   savings_percentage, exc, disk, written, out>>

\* script.py 552-556
DeriveSession ==
    /\ variant = "session" /\ pc = "derive"
    /\ LET rate == calculate_error_rate(PyInt(args.validation_errors),
                                        PyInt(args.user_messages))
       IN /\ error_rate' = rate
          /\ status' = determine_status(rate, cta_left_bool)
    /\ pc' = "log"
    /\ UNCHANGED <<variant, args, previous, is_valid, error_msg, savings,
                   savings_percentage, exc, disk, written, out, err, exit_code>>

\* mutant of log_content: the session time is added to the one the log.txt
\* of an earlier run holds
log_content_accumulating(timestamp) ==
    [user_messages |-> args.user_messages, ai_responses |-> args.ai_responses,
     validation_errors |-> args.validation_errors,
     cta_left |-> truthy(cta_left_bool),
     session_time |-> args.session_time + disk.log_txt.body.session_time,
     error_rate |-> error_rate, status |-> status, timestamp |-> timestamp,
     status_color |-> "", cta_row |-> ""]

\* the values create_log_file interpolates
log_content(timestamp) ==
    [user_messages |-> args.user_messages, ai_responses |-> args.ai_responses,
     validation_errors |-> args.validation_errors,
     cta_left |-> truthy(cta_left_bool), session_time |-> args.session_time,
     error_rate |-> error_rate, status |-> status, timestamp |-> timestamp,
     status_color |-> "", cta_row |-> ""]

\* mutant of status_color_of: status == "Problematic" for "Problematic" in status
status_color_of_exact(s) == IF s = "Problematic" THEN "#e74c3c" ELSE "#2ecc71"

\* status_color = "#e74c3c" if "Problematic" in status else "#2ecc71"
status_color_of(s) == IF Contains(s, "Problematic") THEN "#e74c3c" ELSE "#2ecc71"

\* 'Completed' if not cta_left else 'Pending Action'
cta_row_of(cta_left) == IF ~truthy(cta_left) THEN "Completed" ELSE "Pending Action"

\* the values create_html_file interpolates
html_content(timestamp) ==
    [log_content(timestamp) EXCEPT !.status_color = status_color_of(status),
                                   !.cta_row = cta_row_of(cta_left_bool)]

\* an exception no handler catches: the traceback goes to stderr, exit code 1
Uncaught(e) ==
    /\ exc' = e
    /\ err' = err \o <<"Traceback (most recent call last):", Join(e)>>
    /\ exit_code' = 1
    /\ pc' = "done"
    /\ UNCHANGED out

\* mutant of CreateLogFile: a failed write of log.txt is swallowed and main
\* goes on to result.html
CreateLogFile_continues ==
    /\ variant = "session" /\ pc = "log"
    /\ \E timestamp \in 1..MaxClock, outcome \in Outcomes :
        /\ disk' = [disk EXCEPT !.log_txt =
                       open_write(@, outcome, NoSessionBody, log_content(timestamp))]
        /\ written' = IF outcome = "open" THEN written ELSE written \cup {"log.txt"}
        /\ exc' = IF outcome = "ok" THEN exc ELSE OSError(outcome, "log.txt")
        /\ pc' = "html"
        /\ UNCHANGED <<out, err, exit_code>>
    /\ UNCHANGED <<variant, args, previous, is_valid, error_msg, error_rate, status,
                   savings, savings_percentage>>

\* script.py 558-567 and create_log_file
CreateLogFile ==
    /\ variant = "session" /\ pc = "log"
    /\ \E timestamp \in 1..MaxClock, outcome \in Outcomes :
        /\ disk' = [disk EXCEPT !.log_txt =
                       open_write(@, outcome, NoSessionBody, log_content(timestamp))]
        /\ written' = IF outcome = "open" THEN written ELSE written \cup {"log.txt"}
        /\ IF outcome = "ok"
             THEN /\ pc' = "html"
                  /\ UNCHANGED <<exc, out, err, exit_code>>
             ELSE Uncaught(OSError(outcome, "log.txt"))
    /\ UNCHANGED <<variant, args, previous, is_valid, error_msg, error_rate, status,
                   savings, savings_percentage>>

\* script.py 569-582 and create_html_file
CreateHtmlFile ==
    /\ variant = "session" /\ pc = "html"
    /\ \E timestamp \in 1..MaxClock, outcome \in Outcomes :
        /\ disk' = [disk EXCEPT !.result_html =
                       open_write(@, outcome, NoSessionBody, html_content(timestamp))]
        /\ written' = IF outcome = "open" THEN written ELSE written \cup {"result.html"}
        /\ IF outcome = "ok"
             THEN /\ pc' = "done"
                  /\ out' = out \o <<"Report generated successfully:",
                                     "  - log.txt", "  - result.html">>
                  /\ exit_code' = 0
                  /\ UNCHANGED <<exc, err>>
             ELSE Uncaught(OSError(outcome, "result.html"))
    /\ UNCHANGED <<variant, args, previous, is_valid, error_msg, error_rate, status,
                   savings, savings_percentage>>

(***************************************************************************)
(* financial_report.py: __main__                                           *)
(***************************************************************************)
\* financial_report.py 7-11, 146: logging.basicConfig opens process.log for
\* appending, logging.info writes the first record
StartFinancial ==
    /\ variant = "financial" /\ pc = "start"
    /\ disk' = log_record(disk, "INFO", "Starting process")
    /\ written' = written \cup {"process.log"}
    /\ pc' = "validate"
    /\ UNCHANGED <<variant, args, previous, is_valid, error_msg, error_rate, status,
                   savings, savings_percentage, exc, out, err, exit_code>>

\* mutant of salary_not_positive: < for <=
salary_negative_only(salary) == FLt(salary, Fin(0, 1))

\* if args.salary <= 0
salary_not_positive(salary) == FLe(salary, Fin(0, 1))

\* if args.expenses < 0
expenses_negative(expenses) == FLt(expenses, Fin(0, 1))

\* if args.salary < args.expenses
salary_below_expenses(salary, expenses) == FLt(salary, expenses)

\* f"Expenses (${args.expenses}) are higher than salary (${args.salary})!"
expenses_message(salary, expenses) ==
    <<"Expenses ($", FStr(expenses), ") are higher than salary ($",
      FStr(salary), ")!">>

\* financial_report.py 166-169: except Exception as e
\* (d is the directory as the try block has left it)
HandleException(d, e) ==
    /\ exc' = e
    /\ disk' = log_record(d, "ERROR", "An error occurred: " \o Join(e))
    /\ out' = Append(out, "Error: " \o Join(e))
    /\ exit_code' = 1
    /\ pc' = "done"
    /\ UNCHANGED err

\* financial_report.py 149-157
ValidateFinancial ==
    /\ variant = "financial" /\ pc = "validate"
    /\ IF salary_not_positive(args.salary)
         THEN /\ HandleException(disk, <<"Salary must be a positive number.">>)
              /\ UNCHANGED <<is_valid, error_msg>>
       ELSE IF expenses_negative(args.expenses)
         THEN /\ HandleException(disk, <<"Expenses cannot be negative.">>)
              /\ UNCHANGED <<is_valid, error_msg>>
       ELSE IF salary_below_expenses(args.salary, args.expenses)
         THEN /\ error_msg' = Join(expenses_message(args.salary, args.expenses))
              /\ HandleException(log_record(disk, "ERROR", error_msg'),
                                 expenses_message(args.salary, args.expenses))
              /\ UNCHANGED is_valid
       ELSE /\ is_valid' = TRUE
            /\ pc' = "derive"
            /\ UNCHANGED <<error_msg, exc, disk, out, err, exit_code>>
    /\ UNCHANGED <<variant, args, previous, error_rate, status, savings,
                   savings_percentage, written>>

\* savings = args.salary - args.expenses
savings_of(salary, expenses) == FSub(salary, expenses)

\* savings_percentage = (savings / args.salary) * 100
savings_percentage_of(s, salary) == FMul(FDiv(s, salary), Fin(100, 1))

\* financial_report.py 159-162
DeriveFinancial ==
    /\ variant = "financial" /\ pc = "derive"
    /\ LET s == savings_of(args.salary, args.expenses)
           p == savings_percentage_of(s, args.salary)
       IN /\ savings' = s
          /\ IF p = ZeroDiv
               THEN /\ HandleException(disk, <<"float division by zero">>)
                    /\ UNCHANGED savings_percentage
               ELSE /\ savings_percentage' = p
                    /\ disk' = log_record(disk, "INFO", "Calculation finished")
                    /\ pc' = "html"
                    /\ UNCHANGED <<exc, out, err, exit_code>>
    /\ UNCHANGED <<variant, args, previous, is_valid, error_msg, error_rate, status,
                   written>>

\* the values generate_html hands to template.render
report_content ==
    [name |-> args.name, date |-> args.date, salary |-> args.salary,
     expenses |-> args.expenses, savings |-> savings,
     savings_percentage |-> savings_percentage]

\* financial_report.py 164 and generate_html
GenerateHtml ==
    /\ variant = "financial" /\ pc = "html"
    /\ \E outcome \in Outcomes :
        LET d == [disk EXCEPT !.generated_report_html =
                     open_write(@, outcome, NoFinancialBody, report_content)]
        IN /\ written' = IF outcome = "open" THEN written
                         ELSE written \cup {"generated_report.html"}
           /\ IF outcome = "ok"
                THEN /\ disk' = log_record(d, "INFO", "HTML Report generated")
                     /\ out' = Append(out,
                           "HTML Report generated successfully: generated_report.html")
                     /\ exit_code' = 0
                     /\ pc' = "done"
                     /\ UNCHANGED <<exc, err>>
                ELSE HandleException(d, OSError(outcome, "generated_report.html"))
    /\ UNCHANGED <<variant, args, previous, is_valid, error_msg, error_rate, status,
                   savings, savings_percentage>>

Next ==
    \/ ValidateSession
    \/ DeriveSession
    \/ CreateLogFile
    \/ CreateHtmlFile
    \/ StartFinancial
    \/ ValidateFinancial
    \/ DeriveFinancial
    \/ GenerateHtml

Spec == Init /\ [][Next]_vars

(***************************************************************************)
(* Two runs of the same command line in the same directory                 *)
(***************************************************************************)
\* the process has exited and the program is started again: nothing of the
\* first process is left but the files of the working directory
RunAgain ==
    /\ pc = "done" /\ ~previous.ran
    /\ previous' =
          [ran |-> TRUE, is_valid |-> is_valid, error_msg |-> error_msg,
           error_rate |-> error_rate, status |-> status, savings |-> savings,
           savings_percentage |-> savings_percentage, exit_code |-> exit_code,
           out |-> out, err |-> err, disk |-> disk]
    /\ pc' = "start"
    /\ is_valid' = FALSE
    /\ error_msg' = ""
    /\ error_rate' = Fin(0, 1)
    /\ status' = ""
    /\ savings' = Fin(0, 1)
    /\ savings_percentage' = Fin(0, 1)
    /\ exc' = <<>>
    /\ written' = {}
    /\ out' = <<>>
    /\ err' = <<>>
    /\ exit_code' = -1
    /\ UNCHANGED <<variant, args, disk>>

NextTwice == Next \/ RunAgain

\* the first run starts in a directory no run has written to, the second in
\* the directory as the first has left it
InitTwice == Init /\ disk = FreshDisk

SpecTwice == InitTwice /\ [][NextTwice]_vars

(***************************************************************************)
(* Direct calls of the pure functions of script.py                         *)
(***************************************************************************)
\* what a caller may pass where an integer is expected: an int, a float
\* that holds a whole number, True, a string
NumberLike(ints) == {PyInt(n) : n \in ints} \cup {PyFloat(2), PyBool(TRUE), PyStr}

\* what a caller may pass as cta_left
FlagLike == {PyBool(TRUE), PyBool(FALSE), PyInt(1), PyInt(2), PyFloat(0),
             PyStr, PyNone}

DirectArgs ==
    [user_messages : NumberLike(CountVals), ai_responses : NumberLike(CountVals),
     validation_errors : NumberLike(CountVals), cta_left : FlagLike,
     session_time : NumberLike(TimeVals)]

InitV ==
    /\ variant = "direct"
    /\ args \in DirectArgs
    /\ disk = FreshDisk
    /\ pc = "call"
    /\ is_valid = FALSE
    /\ error_msg = ""
    /\ error_rate = Fin(0, 1)
    /\ status = ""
    /\ savings = Fin(0, 1)
    /\ savings_percentage = Fin(0, 1)
    /\ exc = <<>>
    /\ written = {}
    /\ out = <<>>
    /\ err = <<>>
    /\ exit_code = -1
    /\ previous = NoRun

\* is_valid, error_msg = validate_inputs(...)
CallValidate ==
    /\ variant = "direct" /\ pc = "call"
    /\ LET r == validate_inputs(args.user_messages, args.ai_responses,
                                args.validation_errors, args.cta_left,
                                args.session_time)
       IN /\ is_valid' = r.ok
          /\ error_msg' = r.msg
    /\ pc' = "returned"
    /\ UNCHANGED <<variant, args, previous, error_rate, status, savings,
                   savings_percentage, exc, disk, written, out, err, exit_code>>

\* determine_status(calculate_error_rate(...), cta_left) on an accepted input
CallDerive ==
    /\ variant = "direct" /\ pc = "returned" /\ is_valid
    /\ LET rate == calculate_error_rate(args.validation_errors, args.user_messages)
       IN /\ error_rate' = rate
          /\ status' = determine_status(rate, args.cta_left)
    /\ pc' = "derived"
    /\ UNCHANGED <<variant, args, previous, is_valid, error_msg, savings,
                   savings_percentage, exc, disk, written, out, err, exit_code>>

NextV == CallValidate \/ CallDerive

SpecV == InitV /\ [][NextV]_vars

(***************************************************************************)
(* The metric derivations on values no validation has seen                 *)
(***************************************************************************)
ErrorRateArgs ==
    [validation_errors : {PyInt(n) : n \in CountVals},
     user_messages : {PyInt(n) : n \in CountVals}]

SavingsArgs == [salary : MoneyVals, expenses : MoneyVals]

InitDeriver ==
    /\ variant \in {"session_deriver", "financial_deriver"}
    /\ args \in (IF variant = "session_deriver" THEN ErrorRateArgs ELSE SavingsArgs)
    /\ disk = FreshDisk
    /\ pc = "call"
    /\ is_valid = FALSE
    /\ error_msg = ""
    /\ error_rate = Fin(0, 1)
    /\ status = ""
    /\ savings = Fin(0, 1)
    /\ savings_percentage = Fin(0, 1)
    /\ exc = <<>>
    /\ written = {}
    /\ out = <<>>
    /\ err = <<>>
    /\ exit_code = -1
    /\ previous = NoRun

\* calculate_error_rate(validation_errors, user_messages)
CallErrorRate ==
    /\ variant = "session_deriver" /\ pc = "call"
    /\ error_rate' = calculate_error_rate(args.validation_errors, args.user_messages)
    /\ pc' = "derived"
    /\ UNCHANGED <<variant, args, previous, is_valid, error_msg, status, savings,
                   savings_percentage, exc, disk, written, out, err, exit_code>>

\* financial_report.py 159-160 on its own
EvalSavings ==
    /\ variant = "financial_deriver" /\ pc = "call"
    /\ LET s == savings_of(args.salary, args.expenses)
           p == savings_percentage_of(s, args.salary)
       IN /\ savings' = s
          /\ IF p = ZeroDiv
               THEN /\ exc' = <<"float division by zero">>
                    /\ UNCHANGED savings_percentage
               ELSE /\ savings_percentage' = p
                    /\ UNCHANGED exc
    /\ pc' = "derived"
    /\ UNCHANGED <<variant, args, previous, is_valid, error_msg, error_rate, status,
                   disk, written, out, err, exit_code>>

InitD == Init \/ InitDeriver

NextD == Next \/ CallErrorRate \/ EvalSavings

SpecD == InitD /\ [][NextD]_vars

(***************************************************************************)
(* Properties of validate_inputs (checked under SpecV)                     *)
(***************************************************************************)
Returned == variant = "direct" /\ pc \in {"returned", "derived"}

TypeMessages ==
    {"user_messages must be an integer", "ai_responses must be an integer",
     "validation_errors must be an integer", "session_time must be an integer"}
RangeMessages ==
    {"user_messages must be >= 0", "ai_responses must be >= 0",
     "validation_errors must be >= 0", "session_time must be > 0"}
CrossMessages ==
    {"ai_responses must be <= user_messages",
     "validation_errors must be <= user_messages"}
UpperMessages ==
    {"user_messages must be <= 1000000", "ai_responses must be <= 1000000",
     "validation_errors must be <= 1000000", "session_time must be <= 1000000"}

IntegerKind(x) == x.k \in {"int", "bool"}
BooleanKind(x) == x.k = "bool"

TypeViolated ==
    \/ ~IntegerKind(args.user_messages) \/ ~IntegerKind(args.ai_responses)
    \/ ~IntegerKind(args.validation_errors) \/ ~IntegerKind(args.session_time)
RangeViolated ==
    \/ args.user_messages.v < 0 \/ args.ai_responses.v < 0
    \/ args.validation_errors.v < 0 \/ args.session_time.v <= 0
CrossViolated ==
    \/ args.ai_responses.v > args.user_messages.v
    \/ args.validation_errors.v > args.user_messages.v
UpperViolated ==
    \/ args.user_messages.v > 1000000 \/ args.ai_responses.v > 1000000
    \/ args.validation_errors.v > 1000000 \/ args.session_time.v > 1000000

\* C1 as stated: the message returned is the one of the first violated group
\* in the order type checks, range checks (>= 0, session time > 0),
\* cross-field checks, upper-bound checks; ai_responses = 2,000,000 with
\* user_messages = 5 is rejected with the cross-field message.
C1_GroupOrderAsStated ==
    (Returned /\ BooleanKind(args.cta_left)) =>
       /\ TypeViolated => error_msg \in TypeMessages
       /\ (~TypeViolated /\ RangeViolated) => error_msg \in RangeMessages
       /\ (~TypeViolated /\ ~RangeViolated /\ CrossViolated)
             => error_msg \in CrossMessages
       /\ (~TypeViolated /\ ~RangeViolated /\ ~CrossViolated /\ UpperViolated)
             => error_msg \in UpperMessages

\* the constraints in the order the amended C1 gives them
OrderedChecks ==
    << [bad |-> ~IntegerKind(args.user_messages),
        msg |-> "user_messages must be an integer"],
       [bad |-> ~IntegerKind(args.ai_responses),
        msg |-> "ai_responses must be an integer"],
       [bad |-> ~IntegerKind(args.validation_errors),
        msg |-> "validation_errors must be an integer"],
       [bad |-> ~IntegerKind(args.session_time),
        msg |-> "session_time must be an integer"],
       [bad |-> args.user_messages.v < 0, msg |-> "user_messages must be >= 0"],
       [bad |-> args.ai_responses.v < 0, msg |-> "ai_responses must be >= 0"],
       [bad |-> args.validation_errors.v < 0,
        msg |-> "validation_errors must be >= 0"],
       [bad |-> args.user_messages.v > 1000000,
        msg |-> "user_messages must be <= 1000000"],
       [bad |-> args.ai_responses.v > 1000000,
        msg |-> "ai_responses must be <= 1000000"],
       [bad |-> args.validation_errors.v > 1000000,
        msg |-> "validation_errors must be <= 1000000"],
       [bad |-> args.session_time.v > 1000000,
        msg |-> "session_time must be <= 1000000"],
       [bad |-> args.ai_responses.v > args.user_messages.v,
        msg |-> "ai_responses must be <= user_messages"],
       [bad |-> args.validation_errors.v > args.user_messages.v,
        msg |-> "validation_errors must be <= user_messages"],
       [bad |-> args.session_time.v <= 0, msg |-> "session_time must be > 0"],
       [bad |-> ~(args.cta_left.k \in {"int", "bool", "float"}
                  /\ args.cta_left.v \in {0, 1}),
        msg |-> "cta_left must be true or false"] >>

\* C1, amended: the message returned is the one of the first violated
\* constraint in the order integer checks (user_messages, ai_responses,
\* validation_errors, session_time), >= 0 checks, 1,000,000 upper-bound
\* checks, cross-field checks, session_time > 0, cta_left check; an input with
\* ai_responses above 1,000,000 and above user_messages is rejected with the
\* upper-bound message.
C1_CodeOrder ==
    Returned =>
       /\ LET checks == OrderedChecks
              violated == {i \in DOMAIN checks : checks[i].bad}
          IN IF violated = {}
               THEN is_valid /\ error_msg = ""
               ELSE /\ ~is_valid
                    /\ \E i \in violated :
                         /\ \A j \in violated : i <= j
                         /\ error_msg = checks[i].msg
       /\ (/\ IntegerKind(args.user_messages) /\ args.user_messages.v >= 0
           /\ args.user_messages.v <= 1000000
           /\ IntegerKind(args.ai_responses) /\ IntegerKind(args.validation_errors)
           /\ IntegerKind(args.session_time) /\ args.validation_errors.v >= 0
           /\ args.ai_responses.v > 1000000)
            => error_msg = "ai_responses must be <= 1000000"

\* an input that violates a cross-field constraint and an upper bound
C1_Witness ==
    /\ Returned
    /\ args.user_messages = PyInt(5)
    /\ args.ai_responses = PyInt(2000000)
    /\ args.validation_errors = PyInt(0)
    /\ args.session_time = PyInt(1)
    /\ error_msg = "ai_responses must be <= 1000000"

\* the other fields of a call are valid
OthersValid ==
    /\ args.user_messages.k = "int"
    /\ args.ai_responses.k = "int"
    /\ args.validation_errors.k = "int"
    /\ args.validation_errors.v >= 0
    /\ args.validation_errors.v <= args.user_messages.v
    /\ args.session_time.k = "int"
    /\ args.session_time.v \in 1..1000000
    /\ BooleanKind(args.cta_left)

\* C2 as stated: for every user_messages u in 0..1,000,000, ai_responses = u
\* is accepted and ai_responses = u + 1 is rejected with
\* "ai_responses must be <= user_messages", u = 1,000,000 included.
C2_BoundaryAsStated ==
    (Returned /\ OthersValid /\ args.user_messages.v \in 0..1000000) =>
       /\ args.ai_responses.v = args.user_messages.v => is_valid
       /\ args.ai_responses.v = args.user_messages.v + 1 =>
            (~is_valid /\ error_msg = "ai_responses must be <= user_messages")

\* C2, amended: for every user_messages u in 0..1,000,000, ai_responses = u
\* is accepted and ai_responses = u + 1 is rejected; the reason is
\* "ai_responses must be <= user_messages" for u < 1,000,000 and
\* "ai_responses must be <= 1000000" for u = 1,000,000.
C2_Boundary ==
    (Returned /\ OthersValid /\ args.user_messages.v \in 0..1000000) =>
       /\ args.ai_responses.v = args.user_messages.v =>
            (is_valid /\ error_msg = "")
       /\ (args.ai_responses.v = args.user_messages.v + 1
           /\ args.user_messages.v < 1000000) =>
            (~is_valid /\ error_msg = "ai_responses must be <= user_messages")
       /\ (args.ai_responses.v = args.user_messages.v + 1
           /\ args.user_messages.v = 1000000) =>
            (~is_valid /\ error_msg = "ai_responses must be <= 1000000")

\* ai_responses = user_messages + 1 just below the upper bound
C2_Witness ==
    /\ Returned /\ OthersValid
    /\ args.user_messages.v = 999999
    /\ args.ai_responses.v = 1000000
    /\ ~is_valid
    /\ error_msg = "ai_responses must be <= user_messages"

\* the constraints C5 lists
C5_Constraints ==
    /\ IntegerKind(args.user_messages) /\ IntegerKind(args.ai_responses)
    /\ IntegerKind(args.validation_errors) /\ IntegerKind(args.session_time)
    /\ args.user_messages.v >= 0 /\ args.ai_responses.v >= 0
    /\ args.validation_errors.v >= 0
    /\ args.session_time.v > 0
    /\ args.ai_responses.v <= args.user_messages.v
    /\ args.validation_errors.v <= args.user_messages.v
    /\ args.user_messages.v <= 1000000 /\ args.ai_responses.v <= 1000000
    /\ args.validation_errors.v <= 1000000 /\ args.session_time.v <= 1000000
    /\ BooleanKind(args.cta_left)

\* C5: validate_inputs returns (True, "") exactly when the four numeric
\* fields are integers, the counts are >= 0, session_time > 0, ai_responses
\* and validation_errors are <= user_messages, the four fields are
\* <= 1,000,000 and cta_left is a boolean; otherwise (False, reason) with a
\* non-empty reason.
C5_AcceptsExactlyValid ==
    Returned =>
       /\ (is_valid /\ error_msg = "") <=> C5_Constraints
       /\ ~C5_Constraints => (~is_valid /\ error_msg # "")

(***************************************************************************)
(* Properties of the derived metrics (checked under SpecV)                 *)
(***************************************************************************)
Derived == variant = "direct" /\ pc = "derived"

RateInUnitInterval ==
    /\ error_rate.k = "fin"
    /\ FLe(Fin(0, 1), error_rate) /\ FLe(error_rate, Fin(1, 1))
    /\ 0 <= args.validation_errors.v
    /\ args.validation_errors.v <= args.user_messages.v
    /\ args.user_messages.v = 0 => error_rate = Fin(0, 1)

AllZeroCounts ==
    /\ args.user_messages = PyInt(0) /\ args.ai_responses = PyInt(0)
    /\ args.validation_errors = PyInt(0)
    /\ args.session_time.k = "int" /\ BooleanKind(args.cta_left)

OkStatus == IF args.cta_left.v = 1 THEN "OK (CTA left)" ELSE "OK"

\* C6 as stated: on every accepted input the error rate lies in [0, 1] and
\* is 0 when user_messages = 0; the input 0, 0, 0 with session_time > 0
\* passes validation and yields status "OK" (plus the CTA suffix if set).
C6_RateAndZeroInputAsStated ==
    /\ Derived => RateInUnitInterval
    /\ (Returned /\ AllZeroCounts /\ args.session_time.v > 0) => is_valid
    /\ (Derived /\ AllZeroCounts /\ args.session_time.v > 0) => status = OkStatus

\* C6, amended: on every accepted input the error rate lies in [0, 1] and
\* is 0 when user_messages = 0; the input 0, 0, 0 with
\* 0 < session_time <= 1,000,000 passes validation and yields status "OK"
\* (plus the CTA suffix if set).
C6_RateAndZeroInput ==
    /\ Derived => RateInUnitInterval
    /\ (Returned /\ AllZeroCounts /\ args.session_time.v \in 1..1000000)
          => is_valid
    /\ (Derived /\ AllZeroCounts /\ args.session_time.v \in 1..1000000)
          => status = OkStatus

\* the all-zero input has been accepted and classified
C6_Witness ==
    /\ Derived /\ AllZeroCounts
    /\ args.session_time = PyInt(1000000)
    /\ args.cta_left = PyBool(TRUE)
    /\ error_rate = Fin(0, 1)
    /\ status = "OK (CTA left)"

StartsWith(s, prefix) ==
    Len(s) >= Len(prefix) /\ SubSeq(s, 1, Len(prefix)) = prefix
EndsWith(s, suffix) ==
    Len(s) >= Len(suffix) /\ SubSeq(s, Len(s) - Len(suffix) + 1, Len(s)) = suffix

\* C7: on every accepted input the status starts with "Problematic" exactly
\* when 10 * validation_errors > 3 * user_messages (a rate of exactly 0.3
\* gives "OK"), whatever cta_left is; it ends with " (CTA left)" exactly when
\* cta_left is true; the suffix follows the base status, so the status is
\* one of "OK", "OK (CTA left)", "Problematic", "Problematic (CTA left)".
C7_StatusClassification ==
    Derived =>
       LET over == 10 * args.validation_errors.v > 3 * args.user_messages.v
           cta == args.cta_left.v = 1
       IN /\ StartsWith(status, "Problematic") <=> over
          /\ EndsWith(status, " (CTA left)") <=> cta
          /\ status \in {"OK", "OK (CTA left)", "Problematic",
                         "Problematic (CTA left)"}
          /\ status = (IF over THEN "Problematic" ELSE "OK")
                         \o (IF cta THEN " (CTA left)" ELSE "")

\* a rate of exactly 0.3, with the CTA left
C7_Witness ==
    /\ Derived
    /\ args.validation_errors = PyInt(3)
    /\ args.user_messages = PyInt(10)
    /\ args.cta_left = PyBool(TRUE)
    /\ error_rate = Fin(3, 10)
    /\ status = "OK (CTA left)"

(***************************************************************************)
(* Properties of a run (checked under Spec)                                *)
(***************************************************************************)
Ended == pc = "done"

ReportFiles == {"log.txt", "result.html", "generated_report.html"}

\* the report files are as the run found them
ReportFilesUntouched ==
    /\ written \cap ReportFiles = {}
    /\ disk.log_txt.state \in {"absent", "stale"}
    /\ disk.result_html.state \in {"absent", "stale"}
    /\ disk.generated_report_html.state \in {"absent", "stale"}

AllWritten ==
    IF variant = "session"
      THEN disk.log_txt.state = "full" /\ disk.result_html.state = "full"
      ELSE disk.generated_report_html.state = "full"

\* the reason of a failed run: the validator's message or the exception's
Reason == IF exc # <<>> THEN Join(exc) ELSE error_msg

OnStream(stream, text) == \E i \in DOMAIN stream : Contains(stream[i], text)

\* C4: in both variants a run ends with exit code 0 exactly when validation
\* passed and all output files were written, and with exit code 1 on a
\* validation failure or an I/O failure; on every failing run the reason is
\* printed to the error stream, not to standard output.
C4_ExitCodeAndErrorStream ==
    Ended =>
       /\ exit_code = 0 <=> (is_valid /\ AllWritten)
       /\ exit_code \in {0, 1}
       /\ exit_code = 1 =>
            /\ Reason # ""
            /\ OnStream(err, Reason)
            /\ ~OnStream(out, Reason)

Zero == Fin(0, 1)

\* C8: the financial variant accepts an input exactly when income > 0,
\* expenses >= 0 and expenses <= income; expenses = income is accepted and
\* yields savings 0 and savings percentage 0; an input with expenses > income
\* (income > 0) is rejected with a message that names both values.
C8_FinancialAcceptance ==
    (variant = "financial" /\ pc \in {"derive", "html", "done"}) =>
       LET income == args.salary
           expenses == args.expenses
           valid == /\ FLt(Zero, income) /\ FLe(Zero, expenses)
                    /\ FLe(expenses, income)
       IN /\ is_valid <=> valid
          /\ (is_valid /\ pc \in {"html", "done"} /\ expenses = income)
                => (savings = Zero /\ savings_percentage = Zero)
          /\ (FLt(Zero, income) /\ FLt(income, expenses)) =>
                /\ ~is_valid
                /\ \E i \in DOMAIN exc : exc[i] = FStr(expenses)
                /\ \E i \in DOMAIN exc : exc[i] = FStr(income)

\* C9: for every valid financial input (income > 0, 0 <= expenses <= income)
\* the renderer is handed savings = income - expenses and savings percentage
\* = 100 * savings / income, with 0 <= savings <= income and
\* 0 <= percentage <= 100; income 5000 and expenses 3500 give 1500 and 30.
C9_SavingsHandedToRenderer ==
    (/\ variant = "financial" /\ disk.generated_report_html.state = "full"
     /\ FLt(Zero, args.salary) /\ FLe(Zero, args.expenses)
     /\ FLe(args.expenses, args.salary)) =>
       LET body == disk.generated_report_html.body
       IN /\ FLe(Zero, body.savings) /\ FLe(body.savings, args.salary)
          /\ FLe(Zero, body.savings_percentage)
          /\ FLe(body.savings_percentage, Fin(100, 1))
          /\ (args.salary.k = "fin" /\ args.expenses.k = "fin") =>
               /\ body.savings = Fin(args.salary.n - args.expenses.n, 1)
               /\ body.savings_percentage
                    = Fin(100 * (args.salary.n - args.expenses.n), args.salary.n)
          /\ (args.salary = Fin(5000, 1) /\ args.expenses = Fin(3500, 1)) =>
               (body.savings = Fin(1500, 1) /\ body.savings_percentage = Fin(30, 1))

\* C10: a validated session run writes log.txt first and result.html second;
\* if writing result.html fails the run ends with a non-zero exit and
\* log.txt stays on disk with its full content; if writing log.txt fails the
\* run ends with a non-zero exit and result.html is never written.
C10_LogThenHtmlNoRollback ==
    /\ [][(variant = "session" /\ pc = "html" /\ exc' # <<>>) =>
             /\ pc' = "done" /\ exit_code' # 0
             /\ disk.log_txt.state = "full"
             /\ disk'.log_txt = disk.log_txt
             /\ \E t \in 1..MaxClock : disk'.log_txt.body = log_content(t)]_vars
    /\ [][(variant = "session" /\ pc = "log" /\ exc' # <<>>) =>
             /\ pc' = "done" /\ exit_code' # 0
             /\ disk'.result_html = disk.result_html
             /\ "result.html" \notin written']_vars
    /\ [][(variant = "session" /\ disk'.result_html # disk.result_html) =>
             /\ is_valid /\ pc = "html"
             /\ "log.txt" \in written /\ disk.log_txt.state = "full"]_vars
    /\ [](variant = "session" =>
             /\ "result.html" \in written => disk.log_txt.state = "full"
             /\ (Ended /\ is_valid /\ disk.log_txt.state # "full") =>
                   /\ exit_code # 0
                   /\ disk.result_html.state \in {"absent", "stale"})

\* result.html could not be written after log.txt was
C10_Witness ==
    /\ variant = "session" /\ Ended /\ exit_code = 1
    /\ disk.log_txt.state = "full"
    /\ disk.result_html.state = "partial"
    /\ written = {"log.txt", "result.html"}

(***************************************************************************)
(* Properties of two runs with identical inputs (checked under SpecTwice)  *)
(***************************************************************************)
SecondEnded == Ended /\ previous.ran

SameVerdictAndMetrics ==
    /\ is_valid = previous.is_valid
    /\ error_msg = previous.error_msg
    /\ error_rate = previous.error_rate
    /\ status = previous.status
    /\ savings = previous.savings
    /\ savings_percentage = previous.savings_percentage

\* two files that differ at most in the embedded timestamp
SameSessionFile(f, g) ==
    /\ f.state = g.state
    /\ [f.body EXCEPT !.timestamp = 0] = [g.body EXCEPT !.timestamp = 0]

SameReportFiles ==
    /\ SameSessionFile(disk.log_txt, previous.disk.log_txt)
    /\ SameSessionFile(disk.result_html, previous.disk.result_html)
    /\ disk.generated_report_html = previous.disk.generated_report_html

BothCompleted == exit_code = 0 /\ previous.exit_code = 0

ProgramRun == variant \in {"session", "financial"}

\* the derivation is reached only after validation has passed
DerivedOnlyIfValid ==
    ProgramRun =>
       /\ pc \in {"derive", "log", "html"} => is_valid
       /\ ~is_valid =>
            /\ error_rate = Fin(0, 1) /\ status = ""
            /\ savings = Fin(0, 1) /\ savings_percentage = Fin(0, 1)

\* no run divides by zero
NoDivisionByZero ==
    ProgramRun =>
       /\ error_rate.k # "zerodiv"
       /\ savings_percentage.k # "zerodiv"
       /\ exc # <<"float division by zero">>

\* calculate_error_rate has its own check of the denominator
SessionDeriverGuarded ==
    (variant = "session_deriver" /\ pc = "derived") =>
       /\ error_rate.k # "zerodiv"
       /\ args.user_messages.v = 0 => error_rate = Fin(0, 1)

ZeroIncome == args.salary = Fin(0, 1)

C13_PresentationAgreesWithMetrics ==
    (variant = "session" /\ disk.result_html.state = "full") =>
       LET body == disk.result_html.body
           over == 10 * body.validation_errors > 3 * body.user_messages
           suffixed == EndsWith(body.status, " (CTA left)")
       IN /\ body.status = status /\ body.error_rate = error_rate
          /\ FGt(body.error_rate, Fin(3, 10)) <=> over
          /\ body.status_color = (IF over THEN "#e74c3c" ELSE "#2ecc71")
          /\ body.cta_row = (IF suffixed THEN "Pending Action" ELSE "Completed")

\* a problematic session with the CTA left has been rendered
C13_Witness ==
    /\ variant = "session" /\ disk.result_html.state = "full"
    /\ disk.result_html.body.status = "Problematic (CTA left)"
    /\ disk.result_html.body.status_color = "#e74c3c"
    /\ disk.result_html.body.cta_row = "Pending Action"
    /\ disk.result_html.body.validation_errors = 4
    /\ disk.result_html.body.user_messages = 10

====
